---- MODULE Spec2Model ----
(***************************************************************************)
(* Model of ethcore/src/blockchain/generator/generator.rs: the test chain  *)
(* generator (ChainGenerator), the ChainIterator combinators (fork,        *)
(* with_bloom, with_transaction, complete, generate) and the stages they   *)
(* build (Fork, Bloom, Transaction, Complete) with the BlockFinalizer.     *)
(*                                                                         *)
(* An iterator value is a record tagged with `kind`; a wrapper holds the   *)
(* iterator it wraps in `iter`, as the structs do.  A wrapper built on     *)
(* `&mut self` holds the borrowed value; every pull writes the advanced    *)
(* value back to the variable that owns it.                                *)
(***************************************************************************)
EXTENDS Integers, Sequences, FiniteSets, TLC

\* ------------------------------------------------------------------ bounds
MaxNumber == 3        \* a generator is advanced while number < MaxNumber
MaxStages == 2        \* Bloom / Transaction wrappers stacked on one producer
MaxTake == 2          \* largest N of take(N)
MaxForkNumber == 1    \* fork_number ranges over 0..MaxForkNumber
MaxReduction == 1     \* largest difficulty reduction a fork may apply
MaxPulls == 3         \* pulls in all, where two chains are pulled through stages

\* --------------------------------------------------------------- constants
DefaultDifficulty == 1000

Blooms == {1}                  \* caller-supplied bloom values (0 is the empty bloom)
Transactions == {1}            \* caller-supplied signed transactions
StackBlooms == {1, 2}          \* two different blooms, for stacked Bloom stages
StackTransactions == {1, 2}    \* two different transactions, for stacked stages
ForkNumbers == 0..MaxForkNumber
Producers == {"canon", "fork"}
Finalizers == {"main", "copy"}

None == <<>>
Some(x) == <<x>>

\* --------------------------------------------------------- block and hashes
\* H256::default()
ZeroHash == <<>>
\* H2048 default: no bloom
NoBloom == 0

\* Block::default()
BlockDefault ==
  [number |-> 0, difficulty |-> 0, parent_hash |-> ZeroHash,
   log_bloom |-> NoBloom, transactions |-> <<>>]

\* canonical byte encoding of a block: the header list, then the transactions
Rlp(block) ==
  << <<block.parent_hash, block.log_bloom, block.difficulty, block.number>>,
     block.transactions >>

\* BlockView::new(&rlp): reads the fields back out of the encoding
BlockView(rlp) ==
  [number |-> rlp[1][4], difficulty |-> rlp[1][3], parent_hash |-> rlp[1][1],
   log_bloom |-> rlp[1][2], transactions |-> rlp[2]]

\* content hash of an encoded block; collision-free, and never the zero hash
Hash(rlp) == <<rlp[1], rlp[2], "keccak">>

\* ------------------------------------------------------------------- state
VARIABLES
  canon_chain,      \* the ChainGenerator
  fork_chain,       \* None, or Some(Fork) created by canon_chain.fork(n)
  finalizer,        \* the BlockFinalizer
  fork_finalizer,   \* None, or Some(finalizer.fork())
  fork_reduction,   \* the implementation's difficulty reduction per fork_number
  pipe,             \* the wrapper currently built on a producer
  forkPoint,        \* history: where the producer and the finalizer were forked
  canonOut,         \* history: blocks pulled from canon_chain
  forkOut,          \* history: blocks pulled from fork_chain
  last              \* history: what the last operation returned

vars == <<canon_chain, fork_chain, finalizer, fork_finalizer, fork_reduction,
          pipe, forkPoint, canonOut, forkOut, last>>

\* ------------------------------------------------------- the base generator
\* variant of ChainGeneratorDefault: the first number is 1
ChainGeneratorDefault_FromOne ==
  [kind |-> "ChainGenerator", number |-> 1, difficulty |-> DefaultDifficulty]

\* impl Default for ChainGenerator
ChainGeneratorDefault ==
  [kind |-> "ChainGenerator", number |-> 0, difficulty |-> DefaultDifficulty]

\* variant of prepare_block: the new block already carries a bloom
prepare_block_Bloomed(self) ==
  [BlockDefault EXCEPT !.number = self.number, !.difficulty = self.difficulty,
                       !.log_bloom = 1]

\* variant of prepare_block: the difficulty is left at the block's default
prepare_block_NoDifficulty(self) ==
  [BlockDefault EXCEPT !.number = self.number]

\* ChainGenerator::prepare_block
prepare_block(self) ==
  [BlockDefault EXCEPT !.number = self.number, !.difficulty = self.difficulty]

\* variant of ChainGeneratorNext: the number is incremented twice
ChainGeneratorNext_SkipOne(self) ==
  [iter |-> [self EXCEPT !.number = @ + 2], item |-> Some(prepare_block(self))]

\* variant of ChainGeneratorNext: the number is not incremented
ChainGeneratorNext_Stuck(self) ==
  [iter |-> self, item |-> Some(prepare_block(self))]

\* variant of ChainGeneratorNext: the sequence ends after two blocks
ChainGeneratorNext_Finite(self) ==
  IF self.number >= 2 THEN [iter |-> self, item |-> None]
  ELSE [iter |-> [self EXCEPT !.number = @ + 1], item |-> Some(prepare_block(self))]

\* impl Iterator for ChainGenerator: next
ChainGeneratorNext(self) ==
  [iter |-> [self EXCEPT !.number = @ + 1], item |-> Some(prepare_block(self))]

\* ------------------------------------------------------------- combinators
RECURSIVE IterNext(_)

\* variant of fork: the fork starts from a new generator, not from a clone
fork_Reset(self, fork_number) ==
  [kind |-> "Fork", iter |-> ChainGeneratorDefault, fork_number |-> fork_number]

\* ChainIterator::fork
fork(self, fork_number) ==
  [kind |-> "Fork", iter |-> self, fork_number |-> fork_number]

\* variant of with_bloom: building the stage already pulls one block
with_bloom_PullsAhead(self, bloom) ==
  [kind |-> "Bloom", iter |-> IterNext(self).iter, bloom |-> bloom]

\* variant of with_bloom: the stage replaces a Transaction stage it is built on
with_bloom_Unwraps(self, bloom) ==
  [kind |-> "Bloom",
   iter |-> IF self.kind = "Transaction" THEN self.iter ELSE self,
   bloom |-> bloom]

\* variant of with_bloom: built on a Bloom stage, the new stage goes beneath it
with_bloom_Beneath(self, bloom) ==
  IF self.kind = "Bloom"
  THEN [self EXCEPT !.iter = [kind |-> "Bloom", iter |-> self.iter, bloom |-> bloom]]
  ELSE [kind |-> "Bloom", iter |-> self, bloom |-> bloom]

\* ChainIterator::with_bloom
with_bloom(self, bloom) ==
  [kind |-> "Bloom", iter |-> self, bloom |-> bloom]

\* variant of with_transaction: built on a Transaction stage, the new stage
\* replaces it
with_transaction_Replaces(self, transaction) ==
  [kind |-> "Transaction",
   iter |-> IF self.kind = "Transaction" THEN self.iter ELSE self,
   transaction |-> transaction]

\* ChainIterator::with_transaction
with_transaction(self, transaction) ==
  [kind |-> "Transaction", iter |-> self, transaction |-> transaction]

\* variant of complete: the stage starts from a new finalizer
complete_NewFinalizer(self, fin) ==
  [kind |-> "Complete", iter |-> self, finalizer |-> [parent_hash |-> ZeroHash]]

\* ChainIterator::complete
complete(self, fin) ==
  [kind |-> "Complete", iter |-> self, finalizer |-> fin]

\* Iterator::take
take(self, n) ==
  [kind |-> "Take", iter |-> self, n |-> n]

\* ------------------------------------------------------- per-block changes
\* Forkable for Block: strictly lower difficulty, same number
BlockFork(block, fork_number) ==
  [block EXCEPT !.difficulty = @ - fork_reduction[fork_number]]

\* WithBloom for Block: overwrite the bloom
BlockWithBloom(block, bloom) ==
  [block EXCEPT !.log_bloom = bloom]

\* WithTransaction for Block: append the transaction
BlockWithTransaction(block, transaction) ==
  [block EXCEPT !.transactions = Append(@, transaction)]

\* CompleteBlock for Block: set the parent hash and encode
BlockComplete(block, parent_hash) ==
  Rlp([block EXCEPT !.parent_hash = parent_hash])

\* BlockFinalizer::default()
BlockFinalizerDefault == [parent_hash |-> ZeroHash]

\* BlockFinalizer::fork: a duplicate of the finalizer
BlockFinalizerFork(fin) == fin

\* ------------------------------------------------------------------- next()
\* Fork::next: the wrapped iterator's block, forked
ForkNext(it) ==
  LET r == IterNext(it.iter) IN
  [iter |-> [it EXCEPT !.iter = r.iter],
   item |-> IF r.item = None THEN None
            ELSE Some(BlockFork(r.item[1], it.fork_number))]

\* Bloom::next: the wrapped iterator's block, with the bloom
BloomNext(it) ==
  LET r == IterNext(it.iter) IN
  [iter |-> [it EXCEPT !.iter = r.iter],
   item |-> IF r.item = None THEN None
            ELSE Some(BlockWithBloom(r.item[1], it.bloom))]

\* Transaction::next: the wrapped iterator's block, with the transaction
TransactionNext(it) ==
  LET r == IterNext(it.iter) IN
  [iter |-> [it EXCEPT !.iter = r.iter],
   item |-> IF r.item = None THEN None
            ELSE Some(BlockWithTransaction(r.item[1], it.transaction))]

\* Take::next: None once n elements were taken, without pulling
TakeNext(it) ==
  IF it.n = 0 THEN [iter |-> it, item |-> None]
  ELSE LET r == IterNext(it.iter) IN
       [iter |-> [it EXCEPT !.iter = r.iter, !.n = @ - 1], item |-> r.item]

\* Complete::next: the wrapped iterator's block, completed with the finalizer's
\* parent hash; the block's own hash is committed to the finalizer
CompleteNext(it) ==
  LET r == IterNext(it.iter) IN
  IF r.item = None THEN [iter |-> [it EXCEPT !.iter = r.iter], item |-> None]
  ELSE LET rlp == BlockComplete(r.item[1], it.finalizer.parent_hash) IN
       [iter |-> [it EXCEPT !.iter = r.iter,
                            !.finalizer = [parent_hash |-> Hash(rlp)]],
        item |-> Some(rlp)]

\* Iterator::next of an iterator value: the advanced iterator and the Option item
IterNext(it) ==
  CASE it.kind = "ChainGenerator" -> ChainGeneratorNext(it)
    [] it.kind = "Fork" -> ForkNext(it)
    [] it.kind = "Bloom" -> BloomNext(it)
    [] it.kind = "Transaction" -> TransactionNext(it)
    [] it.kind = "Take" -> TakeNext(it)
    [] it.kind = "Complete" -> CompleteNext(it)

\* variant of generate: the hash committed to the finalizer is the hash of the
\* block before its parent hash was set
generate_CommitsEarly(self, fin) ==
  LET r == IterNext(complete(self, fin))
      raw == IterNext(self)
  IN [iter |-> [r.iter EXCEPT !.finalizer =
                   IF raw.item = None THEN fin
                   ELSE [parent_hash |-> Hash(Rlp(raw.item[1]))]],
      item |-> r.item]

\* variant of generate: the block's hash is not committed to the finalizer
generate_CommitsNothing(self, fin) ==
  LET r == IterNext(complete(self, fin)) IN
  [iter |-> [r.iter EXCEPT !.finalizer = fin], item |-> r.item]

\* variant of generate: two blocks are pulled, the second is returned
generate_PullsTwice(self, fin) ==
  IterNext(IterNext(complete(self, fin)).iter)

\* variant of generate: the block is pulled without the finalizer's parent hash
generate_NoParent(self, fin) ==
  LET r == IterNext(complete(self, [parent_hash |-> ZeroHash])) IN
  [iter |-> [r.iter EXCEPT !.finalizer =
                IF r.item = None THEN fin ELSE r.iter.finalizer],
   item |-> r.item]

\* ChainIterator::generate
generate(self, fin) == IterNext(complete(self, fin))

\* ------------------------------------------------------------ bookkeeping
RECURSIVE BaseOf(_)
\* the producer (ChainGenerator or Fork) a chain of wrappers is built on
BaseOf(it) ==
  IF it.kind \in {"ChainGenerator", "Fork"} THEN it ELSE BaseOf(it.iter)

RECURSIVE Stages(_)
\* the number of Bloom and Transaction wrappers of an iterator value
Stages(it) ==
  IF it.kind \in {"ChainGenerator", "Fork"} THEN 0
  ELSE Stages(it.iter) + (IF it.kind \in {"Bloom", "Transaction"} THEN 1 ELSE 0)

RECURSIVE TakeLeft(_)
\* -1 without a Take wrapper, else the count the Take wrapper has left
TakeLeft(it) ==
  IF it.kind \in {"ChainGenerator", "Fork"} THEN -1
  ELSE IF it.kind = "Take" THEN it.n ELSE TakeLeft(it.iter)

\* the next block number of the generator under an iterator value
NumberOf(it) ==
  LET b == BaseOf(it) IN IF b.kind = "Fork" THEN b.iter.number ELSE b.number

\* no wrapper; `since` and `n0` are history: the number of blocks the target
\* had emitted when it was first wrapped, and the N of take(N) (-1 without)
NoPipe ==
  [target |-> "none", iter |-> <<>>, fin |-> "none", pulled |-> FALSE,
   since |-> 0, n0 |-> -1]

Exists(p) == p = "canon" \/ fork_chain # None
FinExists(f) == f = "main" \/ fork_finalizer # None
Self(p) == IF p = "canon" THEN canon_chain ELSE fork_chain[1]
Fin(f) == IF f = "main" THEN finalizer ELSE fork_finalizer[1]

\* a receiver is a producer that is not borrowed, or the wrapper in `pipe`
Receivers == Producers \cup {"pipe"}
Recv(r) == IF r = "pipe" THEN pipe.iter ELSE Self(r)
Target(r) == IF r = "pipe" THEN pipe.target ELSE r
\* r can be wrapped by one more stage
CanWrap(r) ==
  IF r = "pipe" THEN pipe.target # "none" /\ pipe.fin = "none"
  ELSE pipe.target = "none" /\ Exists(r)
\* r can be pulled
CanUse(r) ==
  IF r = "pipe" THEN pipe.target # "none"
  ELSE Exists(r) /\ pipe.target # r
\* the pull stays within the bound (an exhausted Take never reaches the generator)
InBound(it) == TakeLeft(it) = 0 \/ NumberOf(it) < MaxNumber

Entry(f, item) ==
  IF f = "none" THEN [fin |-> f, block |-> item, hash |-> ZeroHash]
  ELSE [fin |-> f, block |-> BlockView(item), hash |-> Hash(item)]

\* variant of Pulled: the fork and the original share one position counter
Pulled_SharedPosition(r, newRecv, f, newFin, item) ==
  /\ canon_chain' = IF Target(r) = "canon" THEN BaseOf(newRecv)
                    ELSE BaseOf(newRecv).iter
  /\ fork_chain' = IF Target(r) = "fork" THEN Some(BaseOf(newRecv))
                   ELSE IF fork_chain = None THEN None
                   ELSE Some([fork_chain[1] EXCEPT !.iter = BaseOf(newRecv)])
  /\ finalizer' = IF f = "main" THEN newFin ELSE finalizer
  /\ fork_finalizer' = IF f = "copy" THEN Some(newFin) ELSE fork_finalizer
  /\ pipe' = IF r = "pipe" THEN [pipe EXCEPT !.iter = newRecv, !.pulled = TRUE] ELSE pipe
  /\ canonOut' = IF Target(r) = "canon" /\ item # None
                 THEN Append(canonOut, Entry(f, item[1])) ELSE canonOut
  /\ forkOut' = IF Target(r) = "fork" /\ item # None
                THEN Append(forkOut, Entry(f, item[1])) ELSE forkOut
  /\ last' = [src |-> Target(r), fin |-> f,
              item |-> IF item = None THEN None ELSE Some(Entry(f, item[1]).block)]
  /\ UNCHANGED <<fork_reduction, forkPoint>>

\* variant of Pulled: the finalizer and its duplicate share one state
Pulled_SharedFinalizer(r, newRecv, f, newFin, item) ==
  /\ canon_chain' = IF Target(r) = "canon" THEN BaseOf(newRecv) ELSE canon_chain
  /\ fork_chain' = IF Target(r) = "fork" THEN Some(BaseOf(newRecv)) ELSE fork_chain
  /\ finalizer' = IF f # "none" THEN newFin ELSE finalizer
  /\ fork_finalizer' = IF f # "none" /\ fork_finalizer # None
                       THEN Some(newFin) ELSE fork_finalizer
  /\ pipe' = IF r = "pipe" THEN [pipe EXCEPT !.iter = newRecv, !.pulled = TRUE] ELSE pipe
  /\ canonOut' = IF Target(r) = "canon" /\ item # None
                 THEN Append(canonOut, Entry(f, item[1])) ELSE canonOut
  /\ forkOut' = IF Target(r) = "fork" /\ item # None
                THEN Append(forkOut, Entry(f, item[1])) ELSE forkOut
  /\ last' = [src |-> Target(r), fin |-> f,
              item |-> IF item = None THEN None ELSE Some(Entry(f, item[1]).block)]
  /\ UNCHANGED <<fork_reduction, forkPoint>>

\* variant of Pulled: a pull without a completion stage commits the block's hash
\* to the finalizer
Pulled_RawCommits(r, newRecv, f, newFin, item) ==
  /\ canon_chain' = IF Target(r) = "canon" THEN BaseOf(newRecv) ELSE canon_chain
  /\ fork_chain' = IF Target(r) = "fork" THEN Some(BaseOf(newRecv)) ELSE fork_chain
  /\ finalizer' = IF f = "main" THEN newFin
                  ELSE IF f = "none" /\ item # None
                  THEN [parent_hash |-> Hash(Rlp(item[1]))] ELSE finalizer
  /\ fork_finalizer' = IF f = "copy" THEN Some(newFin) ELSE fork_finalizer
  /\ pipe' = IF r = "pipe" THEN [pipe EXCEPT !.iter = newRecv, !.pulled = TRUE] ELSE pipe
  /\ canonOut' = IF Target(r) = "canon" /\ item # None
                 THEN Append(canonOut, Entry(f, item[1])) ELSE canonOut
  /\ forkOut' = IF Target(r) = "fork" /\ item # None
                THEN Append(forkOut, Entry(f, item[1])) ELSE forkOut
  /\ last' = [src |-> Target(r), fin |-> f,
              item |-> IF item = None THEN None ELSE Some(Entry(f, item[1]).block)]
  /\ UNCHANGED <<fork_reduction, forkPoint>>

\* the effect of one pull on receiver r: newRecv is its advanced value, newFin
\* the advanced value of finalizer f (f = "none": no finalizer involved)
Pulled(r, newRecv, f, newFin, item) ==
  /\ canon_chain' = IF Target(r) = "canon" THEN BaseOf(newRecv) ELSE canon_chain
  /\ fork_chain' = IF Target(r) = "fork" THEN Some(BaseOf(newRecv)) ELSE fork_chain
  /\ finalizer' = IF f = "main" THEN newFin ELSE finalizer
  /\ fork_finalizer' = IF f = "copy" THEN Some(newFin) ELSE fork_finalizer
  /\ pipe' = IF r = "pipe" THEN [pipe EXCEPT !.iter = newRecv, !.pulled = TRUE] ELSE pipe
  /\ canonOut' = IF Target(r) = "canon" /\ item # None
                 THEN Append(canonOut, Entry(f, item[1])) ELSE canonOut
  /\ forkOut' = IF Target(r) = "fork" /\ item # None
                THEN Append(forkOut, Entry(f, item[1])) ELSE forkOut
  /\ last' = [src |-> Target(r), fin |-> f,
              item |-> IF item = None THEN None ELSE Some(Entry(f, item[1]).block)]
  /\ UNCHANGED <<fork_reduction, forkPoint>>

\* ------------------------------------------------------------------ actions
Init ==
  /\ canon_chain = ChainGeneratorDefault
  /\ fork_chain = None
  /\ finalizer = BlockFinalizerDefault
  /\ fork_finalizer = None
  /\ fork_reduction \in [ForkNumbers -> 1..MaxReduction]
  /\ pipe = NoPipe
  /\ forkPoint = [chain |-> -1, canon |-> None, fork |-> None, finalizer |-> None]
  /\ canonOut = <<>>
  /\ forkOut = <<>>
  /\ last = [src |-> "none", fin |-> "none", item |-> None]

\* let mut fork_chain = canon_chain.fork(fork_number)
Fork(fork_number) ==
  /\ fork_chain = None
  /\ pipe.target # "canon"
  /\ fork_chain' = Some(fork(canon_chain, fork_number))
  /\ forkPoint' = [forkPoint EXCEPT !.chain = Len(canonOut), !.canon = canon_chain,
                                   !.fork = fork(canon_chain, fork_number)]
  /\ UNCHANGED <<canon_chain, finalizer, fork_finalizer, fork_reduction, pipe,
                 canonOut, forkOut, last>>

\* finalizer.fork()
FinalizerFork ==
  /\ fork_finalizer = None
  /\ pipe.fin # "main"
  /\ fork_finalizer' = Some(BlockFinalizerFork(finalizer))
  /\ forkPoint' = [forkPoint EXCEPT !.finalizer = Some(finalizer.parent_hash)]
  /\ UNCHANGED <<canon_chain, fork_chain, finalizer, fork_reduction, pipe,
                 canonOut, forkOut, last>>

\* the wrapper `it` built on receiver r becomes the current wrapper
Wrap(r, it, f) ==
  /\ pipe' = [target |-> Target(r), iter |-> it, fin |-> f, pulled |-> FALSE,
              since |-> IF r = "pipe" THEN pipe.since
                        ELSE IF r = "canon" THEN Len(canonOut) ELSE Len(forkOut),
              n0 |-> IF it.kind = "Take" THEN it.n ELSE pipe.n0]
  /\ UNCHANGED <<canon_chain, fork_chain, finalizer, fork_finalizer,
                 fork_reduction, forkPoint, canonOut, forkOut, last>>

\* r.with_bloom(bloom)
WithBloom(r, bloom) ==
  /\ CanWrap(r)
  /\ Stages(Recv(r)) < MaxStages
  /\ Wrap(r, with_bloom(Recv(r), bloom), "none")

\* r.with_transaction(transaction)
WithTransaction(r, transaction) ==
  /\ CanWrap(r)
  /\ Stages(Recv(r)) < MaxStages
  /\ Wrap(r, with_transaction(Recv(r), transaction), "none")

\* canon_chain.take(n): takes the generator by value
Take(n) ==
  /\ pipe.target = "none"
  /\ Wrap("canon", take(canon_chain, n), "none")

\* r.complete(&mut f)
Complete(r, f) ==
  /\ CanWrap(r)
  /\ FinExists(f)
  /\ Wrap(r, complete(Recv(r), Fin(f)), f)

\* r.next()
IteratorNext(r) ==
  /\ CanUse(r)
  /\ InBound(Recv(r))
  /\ LET res == IterNext(Recv(r))
         f == IF r = "pipe" THEN pipe.fin ELSE "none"
     IN Pulled(r, res.iter, f,
               IF f = "none" THEN None ELSE res.iter.finalizer, res.item)

\* r.generate(&mut f)
Generate(r, f) ==
  /\ CanUse(r)
  /\ r = "pipe" => pipe.fin = "none"
  /\ FinExists(f)
  /\ pipe.fin # f
  /\ InBound(Recv(r))
  /\ LET res == generate(Recv(r), Fin(f))
     IN Pulled(r, res.iter.iter, f, res.iter.finalizer, res.item)

\* the current wrapper goes out of scope; a Take owns its generator
Drop ==
  /\ pipe.target # "none"
  /\ TakeLeft(pipe.iter) = -1
  /\ pipe' = NoPipe
  /\ UNCHANGED <<canon_chain, fork_chain, finalizer, fork_finalizer,
                 fork_reduction, forkPoint, canonOut, forkOut, last>>

\* ----------------------------------------------------------- specifications
\* two chains: the canonical generator and its fork, each completed with the
\* finalizer or with its duplicate, in any interleaving
Next ==
  \/ \E n \in ForkNumbers : Fork(n)
  \/ FinalizerFork
  \/ \E p \in Producers : IteratorNext(p)
  \/ \E p \in Producers, f \in Finalizers : Generate(p, f)

Spec == Init /\ [][Next]_vars

\* one chain: the generator wrapped by any stack of stages
InitDecor ==
  /\ Init
  /\ fork_reduction = [n \in ForkNumbers |-> 1]

NextDecor ==
  \/ \E r \in {"canon", "pipe"}, b \in Blooms : WithBloom(r, b)
  \/ \E r \in {"canon", "pipe"}, t \in Transactions : WithTransaction(r, t)
  \/ \E n \in 0..MaxTake : Take(n)
  \/ \E r \in {"canon", "pipe"} : Complete(r, "main")
  \/ \E r \in {"canon", "pipe"} : IteratorNext(r)
  \/ \E r \in {"canon", "pipe"} : Generate(r, "main")
  \/ Drop

SpecDecor == InitDecor /\ [][NextDecor]_vars

\* two chains, one stage: the generator and its fork, either one pulled bare,
\* through one Bloom or Transaction stage, or completed; MaxPulls pulls in all
FewPulls == Len(canonOut) + Len(forkOut) < MaxPulls

NextBranches ==
  \/ \E n \in ForkNumbers : Fork(n)
  \/ FinalizerFork
  \/ \E p \in Producers, b \in Blooms : WithBloom(p, b)
  \/ \E p \in Producers, t \in Transactions : WithTransaction(p, t)
  \/ FewPulls /\ \E r \in Receivers : IteratorNext(r)
  \/ FewPulls /\ \E p \in Producers, f \in Finalizers : Generate(p, f)
  \/ Drop

SpecBranches == Init /\ [][NextBranches]_vars

\* one chain, Bloom stages with different blooms stacked over the generator or
\* over a Take, pulled without completion
NextBlooms ==
  \/ \E r \in {"canon", "pipe"}, b \in StackBlooms : WithBloom(r, b)
  \/ \E n \in 0..MaxTake : Take(n)
  \/ \E r \in {"canon", "pipe"} : IteratorNext(r)
  \/ Drop

SpecBlooms == InitDecor /\ [][NextBlooms]_vars

\* one chain, Transaction stages with different transactions and Bloom stages
\* stacked over the generator one after another, pulled without completion; MaxPulls pulls in all
NextTransactions ==
  \/ \E r \in {"canon", "pipe"}, t \in StackTransactions : WithTransaction(r, t)
  \/ \E r \in {"canon", "pipe"}, b \in Blooms : WithBloom(r, b)
  \/ FewPulls /\ \E r \in {"canon", "pipe"} : IteratorNext(r)

SpecTransactions == InitDecor /\ [][NextTransactions]_vars

\* ------------------------------------------------------------------ claims
\* C1 (Linkage): of the blocks one producer chain completes against one
\* finalizer, by generate or by complete().next(), every two consecutive ones
\* A then B have B.parent_hash = hash(A) and B.number = A.number + 1; when every
\* block of the chain was completed, the i-th has number B0.number + i.
C1_Linkage ==
  /\ \A i \in 1..(Len(canonOut) - 1) :
       (canonOut[i].fin = "main" /\ canonOut[i + 1].fin = "main") =>
          /\ canonOut[i + 1].block.parent_hash = canonOut[i].hash
          /\ canonOut[i + 1].block.number = canonOut[i].block.number + 1
  /\ (\A i \in 1..Len(canonOut) : canonOut[i].fin = "main") =>
        \A i \in 1..Len(canonOut) :
           canonOut[i].block.number = canonOut[1].block.number + (i - 1)

\* three blocks were completed in a row, the third linked to the second
C1_Witness ==
  /\ Len(canonOut) = 3
  /\ \A i \in 1..3 : canonOut[i].fin = "main"
  /\ canonOut[3].block.parent_hash = canonOut[2].hash
  /\ canonOut[3].block.parent_hash # ZeroHash

\* C2 (Genesis defaults): the first block completed from a fresh
\* ChainGenerator::default() with a fresh BlockFinalizer::default() has number 0,
\* the zero parent hash and difficulty 1000.
C2_GenesisDefaults ==
  (Len(canonOut) >= 1 /\ canonOut[1].fin = "main") =>
     /\ canonOut[1].block.number = 0
     /\ canonOut[1].block.parent_hash = ZeroHash
     /\ canonOut[1].block.difficulty = 1000

\* the genesis block was completed, by generate on the bare generator
C2_Witness ==
  /\ Len(canonOut) = 1
  /\ canonOut[1].fin = "main"
  /\ pipe.target = "none"
  /\ last.item = Some(canonOut[1].block)

RECURSIVE NthItem(_, _)
\* the j-th block (j >= 1) an iterator value emits when nothing else touches it
NthItem(it, j) ==
  IF j = 1 THEN IterNext(it).item[1] ELSE NthItem(IterNext(it).iter, j - 1)

\* C3 (Fork difficulty ordering): every block a fork emits, for every
\* fork_number, has the number of the block the un-forked continuation emits at
\* that index and a strictly lower difficulty than that canonical block.
C3_ForkDifficulty ==
  \A j \in 1..Len(forkOut) :
     LET c == NthItem(forkPoint.canon, j)
         k == forkPoint.chain
     IN /\ forkOut[j].block.number = c.number
        /\ forkOut[j].block.difficulty < c.difficulty
        /\ (k + j <= Len(canonOut)) =>
             /\ forkOut[j].block.number = canonOut[k + j].block.number
             /\ forkOut[j].block.difficulty < canonOut[k + j].block.difficulty

\* a fork made with fork_number 0 after the genesis emitted two blocks, and the
\* canonical chain emitted the blocks of the same numbers
C3_Witness ==
  /\ fork_chain # None
  /\ fork_chain[1].fork_number = 0
  /\ forkPoint.chain = 1
  /\ Len(forkOut) = 2
  /\ Len(canonOut) = 3

\* the canonical producer was advanced to position k by completions with the
\* finalizer; there the fork and the duplicate of the finalizer were made; from
\* then on the canonical chain is completed with the finalizer and the fork with
\* the duplicate
ForkedAtSharedPoint ==
  /\ forkPoint.chain >= 0
  /\ forkPoint.finalizer =
       Some(IF forkPoint.chain = 0 THEN ZeroHash ELSE canonOut[forkPoint.chain].hash)
  /\ \A i \in 1..Len(canonOut) : canonOut[i].fin = "main"
  /\ \A j \in 1..Len(forkOut) : forkOut[j].fin = "copy"

\* C4 as stated (Fork divergence): the fork's completed block at any position n
\* after the fork point has parent_hash equal to the hash of the canonical
\* chain's block at position n-1, and strictly lower difficulty than the
\* canonical chain's block of number n.
C4_AsStated ==
  (ForkedAtSharedPoint /\ forkPoint.chain >= 1) =>
    \A j \in 1..Len(forkOut) : \A i \in 1..Len(canonOut) :
       /\ (canonOut[i].block.number = forkOut[j].block.number - 1) =>
             forkOut[j].block.parent_hash = canonOut[i].hash
       /\ (canonOut[i].block.number = forkOut[j].block.number) =>
             forkOut[j].block.difficulty < canonOut[i].block.difficulty

\* C4 amended: only the fork's first block (position k) has the canonical block
\* at k-1 as its parent; every later fork block has the fork's own previous
\* block as its parent; every fork block has strictly lower difficulty than the
\* canonical block of the same number.
C4_ForkDivergence ==
  ForkedAtSharedPoint =>
    \A j \in 1..Len(forkOut) :
       /\ (j = 1) =>
            /\ forkOut[1].block.number = forkPoint.chain
            /\ forkOut[1].block.parent_hash =
                 (IF forkPoint.chain = 0 THEN ZeroHash
                  ELSE canonOut[forkPoint.chain].hash)
       /\ (j > 1) => forkOut[j].block.parent_hash = forkOut[j - 1].hash
       /\ \A i \in 1..Len(canonOut) :
            (canonOut[i].block.number = forkOut[j].block.number) =>
               forkOut[j].block.difficulty < canonOut[i].block.difficulty

\* forked after the genesis; the fork and the canonical chain both completed
\* blocks 1 and 2
C4_Witness ==
  /\ ForkedAtSharedPoint
  /\ forkPoint.chain = 1
  /\ Len(forkOut) = 2
  /\ Len(canonOut) = 3

\* C5 (Shared ancestor at the fork point): when the producer is forked and the
\* finalizer duplicated right after block b was the last block completed, the
\* first block completed on the fork (with the duplicate) and the next block
\* completed on the canonical chain (with the original) both have
\* parent_hash = hash(b) and number b.number + 1, in either order.
C5_SharedAncestor ==
  LET k == forkPoint.chain IN
  (/\ k >= 1
   /\ canonOut[k].fin = "main"
   /\ forkPoint.finalizer = Some(canonOut[k].hash)
   /\ \A i \in 1..Len(canonOut) : canonOut[i].fin # "copy"
   /\ \A j \in 1..Len(forkOut) : forkOut[j].fin # "main")
  =>
  /\ (Len(forkOut) >= 1 /\ forkOut[1].fin = "copy") =>
        /\ forkOut[1].block.parent_hash = canonOut[k].hash
        /\ forkOut[1].block.number = canonOut[k].block.number + 1
  /\ (Len(canonOut) >= k + 1 /\ canonOut[k + 1].fin = "main") =>
        /\ canonOut[k + 1].block.parent_hash = canonOut[k].hash
        /\ canonOut[k + 1].block.number = canonOut[k].block.number + 1

\* forked after block 1; the fork completed its block 2 first, the canonical
\* chain completed its block 2 after it
C5_Witness ==
  /\ forkPoint.chain = 2
  /\ canonOut[2].fin = "main"
  /\ forkPoint.finalizer = Some(canonOut[2].hash)
  /\ Len(forkOut) = 1 /\ forkOut[1].fin = "copy"
  /\ Len(canonOut) = 3 /\ canonOut[3].fin = "main"
  /\ last.src = "canon"

\* a block as its producer emitted it, before completion set the parent hash
Uncompleted(block) == [block EXCEPT !.parent_hash = ZeroHash]

\* C6 (Fork non-aliasing): fork() leaves the original producer as it was, and
\* in every interleaving of advances of the original and of the fork each of the
\* two emits the blocks it would emit if the other were never advanced.
C6_NonAliasing ==
  fork_chain # None =>
    LET k == forkPoint.chain IN
    /\ \A j \in 1..Len(forkOut) :
          Uncompleted(forkOut[j].block) = NthItem(forkPoint.fork, j)
    /\ \A j \in 1..(Len(canonOut) - k) :
          Uncompleted(canonOut[k + j].block) = NthItem(forkPoint.canon, j)
    /\ IterNext(fork_chain[1]).item = Some(NthItem(forkPoint.fork, Len(forkOut) + 1))
    /\ IterNext(canon_chain).item = Some(NthItem(forkPoint.canon, Len(canonOut) - k + 1))

\* after the fork was made the canonical chain advanced, then the fork advanced
\* for the second time
C6_Witness ==
  /\ fork_chain # None
  /\ forkPoint.chain = 1
  /\ Len(forkOut) = 2
  /\ Len(canonOut) = 2
  /\ last.src = "fork"

\* C7 (Bulk generation): generator.take(N).complete(finalizer) yields exactly N
\* results and then exhaustion; from a new generator and finalizer the results
\* have numbers 0..N-1 in order, pairwise distinct hashes and valid linkage.
C7_BulkGeneration ==
  LET k == pipe.since
      N == pipe.n0
      got == Len(canonOut) - k
  IN (/\ N >= 0
      /\ pipe.fin = "main"
      /\ \A i \in (k + 1)..Len(canonOut) : canonOut[i].fin = "main")
     =>
     /\ got + TakeLeft(pipe.iter) = N
     /\ (TakeLeft(pipe.iter) > 0) => IterNext(pipe.iter).item # None
     /\ (TakeLeft(pipe.iter) = 0) =>
           /\ IterNext(pipe.iter).item = None
           /\ IterNext(pipe.iter).iter = pipe.iter
     /\ (pipe.pulled /\ last.item = None) => got = N
     /\ (k = 0) =>
           /\ \A i \in 1..Len(canonOut) :
                 /\ canonOut[i].block.number = i - 1
                 /\ canonOut[i].block.parent_hash =
                      (IF i = 1 THEN ZeroHash ELSE canonOut[i - 1].hash)
           /\ \A i, j \in 1..Len(canonOut) :
                 (i # j) => canonOut[i].hash # canonOut[j].hash

\* take(2).complete(finalizer) on the new generator gave two blocks and then None
C7_Witness ==
  /\ pipe.n0 = 2
  /\ pipe.since = 0
  /\ pipe.fin = "main"
  /\ Len(canonOut) = 2
  /\ \A i \in 1..2 : canonOut[i].fin = "main"
  /\ pipe.pulled
  /\ last.item = None

\* a block that went through a Bloom, Transaction or Complete stage
Decorated(e) ==
  e.block.log_bloom # NoBloom \/ e.block.transactions # <<>> \/ e.fin # "none"

\* C8 (Decorators share the producer's position): a stage built with with_bloom,
\* with_transaction or complete holds the producer at its own position, and one
\* pull through it advances the producer by exactly one block: the next block
\* pulled has the next number and, completed with the same finalizer, has the
\* decorated block's hash as parent_hash.
C8_DecoratorsAdvanceOnce ==
  /\ canon_chain.number = Len(canonOut)
  /\ (pipe.target = "canon") => BaseOf(pipe.iter) = canon_chain
  /\ \A i \in 1..(Len(canonOut) - 1) :
        Decorated(canonOut[i]) =>
           /\ canonOut[i + 1].block.number = canonOut[i].block.number + 1
           /\ (canonOut[i].fin = "main" /\ canonOut[i + 1].fin = "main") =>
                 canonOut[i + 1].block.parent_hash = canonOut[i].hash

\* block 0 was generated through with_bloom, block 1 from the bare generator
C8_Witness ==
  /\ Len(canonOut) = 2
  /\ canonOut[1].block.log_bloom \in Blooms
  /\ canonOut[1].fin = "main"
  /\ canonOut[2].block.log_bloom = NoBloom
  /\ canonOut[2].fin = "main"
  /\ canonOut[2].block.number = 1
  /\ pipe.target = "none"

\* what a caller reads from the value a completed pull returned
Returned(item) == IF item = None THEN None ELSE Some(BlockView(item[1]))

\* C9 (generate = complete then one pull): the first next() of complete(finalizer)
\* returns what generate(finalizer) returns from the same producer and finalizer
\* states, and leaves the producer and the finalizer as generate leaves them.
C9_GenerateIsCompleteNext ==
  [][ (pipe.fin = "main" /\ ~pipe.pulled /\ pipe'.pulled) =>
        LET g == generate(pipe.iter.iter, finalizer) IN
        /\ last'.item = Returned(g.item)
        /\ pipe'.iter.iter = g.iter.iter
        /\ canon_chain' = BaseOf(g.iter.iter)
        /\ finalizer' = g.iter.finalizer ]_vars

\* complete(finalizer) was built on a decorated generator and pulled once
C9_Witness ==
  /\ pipe.fin = "main"
  /\ pipe.pulled
  /\ Stages(pipe.iter) = 1
  /\ last.item # None
  /\ Len(canonOut) = 2

\* the values a stage can be built on: the generator, or the current wrapper
Wrappable ==
  {canon_chain} \cup
  (IF pipe.target # "none" /\ pipe.fin = "none" THEN {pipe.iter} ELSE {})

\* C10 (Composition order): Bloom then Transaction yields, for every block, the
\* same block as Transaction then Bloom: the configured bloom and the configured
\* transaction present, number and difficulty those of the wrapped block.
C10_OrderIrrelevant ==
  \A x \in Wrappable : \A b \in Blooms : \A t \in Transactions :
     LET bt == IterNext(with_transaction(with_bloom(x, b), t))
         tb == IterNext(with_bloom(with_transaction(x, t), b))
         raw == IterNext(x)
     IN /\ bt.item = tb.item
        /\ BaseOf(bt.iter) = BaseOf(tb.iter)
        /\ (raw.item # None) =>
              /\ bt.item # None
              /\ bt.item[1].log_bloom = b
              /\ bt.item[1].transactions = Append(raw.item[1].transactions, t)
              /\ bt.item[1].number = raw.item[1].number
              /\ bt.item[1].difficulty = raw.item[1].difficulty

\* blocks were pulled through Bloom-then-Transaction and through
\* Transaction-then-Bloom
C10_Witness ==
  /\ Len(canonOut) = 2
  /\ canonOut[1].block.log_bloom \in Blooms
  /\ canonOut[1].block.transactions # <<>>
  /\ pipe.target = "canon"
  /\ pipe.iter.kind = "Bloom"
  /\ pipe.iter.iter.kind = "Transaction"
  /\ pipe.pulled
  /\ canonOut[2].block.log_bloom \in Blooms
  /\ canonOut[2].block.transactions # <<>>

\* the newest entry of a history
LastOf(seq) == seq[Len(seq)]

\* the current wrapper is a Bloom stage on producer p
BloomOn(p) == pipe.target = p /\ pipe.iter.kind = "Bloom"

\* C11 (Bloom independence across a forked pair): with a Bloom stage applied to
\* one branch of a forked pair, every block the other branch emits keeps the
\* empty bloom, in every interleaving of advances of the two branches.
C11_BloomIndependence ==
  /\ [](BloomOn("canon") /\ fork_chain # None =>
          IterNext(fork_chain[1]).item[1].log_bloom = NoBloom)
  /\ [](BloomOn("fork") => IterNext(canon_chain).item[1].log_bloom = NoBloom)
  /\ [][ /\ (canonOut' # canonOut /\ ~BloomOn("canon")) =>
               LastOf(canonOut').block.log_bloom = NoBloom
         /\ (forkOut' # forkOut /\ ~BloomOn("fork")) =>
               LastOf(forkOut').block.log_bloom = NoBloom ]_vars

\* the fork emitted a block through its Bloom stage, then the canonical chain
\* emitted a block while that stage was still in use
C11_Witness ==
  /\ BloomOn("fork")
  /\ pipe.pulled
  /\ forkOut # <<>>
  /\ LastOf(forkOut).block.log_bloom \in Blooms
  /\ Len(canonOut) > forkPoint.chain
  /\ last.src = "canon"
  /\ last.item # None
  /\ last.item[1].log_bloom = NoBloom

\* the ChainGenerator values in use: the original and the fork's clone
Generators ==
  {canon_chain} \cup (IF fork_chain = None THEN {} ELSE {fork_chain[1].iter})

\* C12 (Base generator step): an advance of ChainGenerator returns a block with
\* the generator's number and difficulty and every other field at its default,
\* and leaves the number one larger and the difficulty unchanged; so the emitted
\* numbers increase by exactly 1 and the difficulty is constant.
C12_BaseStep ==
  /\ \A g \in Generators :
        LET r == ChainGeneratorNext(g) IN
        /\ r.item = Some([number |-> g.number, difficulty |-> g.difficulty,
                          parent_hash |-> ZeroHash, log_bloom |-> NoBloom,
                          transactions |-> <<>>])
        /\ r.iter.number = g.number + 1
        /\ r.iter.difficulty = g.difficulty
  /\ \A i \in 1..Len(canonOut) :
        /\ canonOut[i].block.number = i - 1
        /\ canonOut[i].block.difficulty = canonOut[1].block.difficulty
        /\ canonOut[i].block.log_bloom = NoBloom
        /\ canonOut[i].block.transactions = <<>>
        /\ (canonOut[i].fin = "none") => canonOut[i].block.parent_hash = ZeroHash
  /\ canon_chain.number = Len(canonOut)
  /\ canon_chain.difficulty = 1000

\* the generator was advanced three times by next()
C12_Witness ==
  /\ Len(canonOut) = 3
  /\ \A i \in 1..3 : canonOut[i].fin = "none"
  /\ canon_chain.number = 3

\* C13 (The base generator never exhausts): in every reachable state next() of
\* a ChainGenerator returns a block, and so does every pull of an unbounded
\* ChainGenerator wrapped in complete; only an exhausted Take returns None.
C13_NeverExhausts ==
  /\ IterNext(canon_chain).item # None
  /\ IterNext(complete(canon_chain, finalizer)).item # None
  /\ (pipe.target # "none" /\ TakeLeft(pipe.iter) = -1) =>
        IterNext(pipe.iter).item # None
  /\ (last.src # "none" /\ last.item = None) =>
        (pipe.target # "none" /\ TakeLeft(pipe.iter) = 0)

\* every pull of complete(finalizer) on the generator returned a block, up to
\* the bound
C13_Witness ==
  /\ pipe.fin = "main"
  /\ pipe.iter.iter.kind = "ChainGenerator"
  /\ pipe.pulled
  /\ pipe.since = 0
  /\ Len(canonOut) = MaxNumber
  /\ \A i \in 1..Len(canonOut) : canonOut[i].fin = "main"
  /\ last.item # None

RECURSIVE Commits(_)
\* the number of hashes committed one after another up to hash h
Commits(h) == IF h = ZeroHash THEN 0 ELSE 1 + Commits(h[1][1])

\* this step is a pull of the Complete stage held in `pipe`
CompletePull ==
  /\ pipe.fin = "main"
  /\ pipe'.fin = "main"
  /\ pipe'.pulled
  /\ (pipe' # pipe \/ last' # last \/ canonOut' # canonOut)

\* C14 (One commit per block, none on exhaustion): a pull of the completion
\* stage that yields a block commits exactly one hash to the finalizer; a pull
\* on an exhausted producer returns None, leaves the finalizer unchanged, and so
\* does every later pull.
C14_OneCommitPerBlock ==
  /\ [](Commits(finalizer.parent_hash) =
          Cardinality({i \in 1..Len(canonOut) : canonOut[i].fin = "main"}))
  /\ []((pipe.fin = "main" /\ TakeLeft(pipe.iter) = 0) =>
          LET r == IterNext(pipe.iter) IN
          /\ r.item = None
          /\ r.iter.finalizer = finalizer
          /\ r.iter = pipe.iter)
  /\ [][ CompletePull =>
           IF canonOut' # canonOut
           THEN /\ LastOf(canonOut').fin = "main"
                /\ finalizer'.parent_hash = LastOf(canonOut').hash
                /\ Commits(finalizer'.parent_hash) = Commits(finalizer.parent_hash) + 1
           ELSE /\ finalizer' = finalizer
                /\ last'.item = None ]_vars

\* after one generated block, take(1).complete(finalizer) gave one block and
\* then None
C14_Witness ==
  /\ pipe.n0 = 1
  /\ pipe.since = 1
  /\ pipe.fin = "main"
  /\ pipe.pulled
  /\ Len(canonOut) = 2
  /\ \A i \in 1..2 : canonOut[i].fin = "main"
  /\ last.item = None
  /\ Commits(finalizer.parent_hash) = 2

\* the entry appended to log `out` by this step was completed with finalizer f:
\* its parent hash is the hash the finalizer held, and the finalizer now holds
\* the entry's hash
ChainedOn(out, out2, f, before, after) ==
  (out2 # out /\ LastOf(out2).fin = f) =>
     /\ LastOf(out2).block.parent_hash = before.parent_hash
     /\ after.parent_hash = LastOf(out2).hash

\* C15 (Parent hash follows finalizer call order): a completed block's parent
\* hash is the hash most recently committed to the finalizer used for the
\* completion (the zero hash if none was), whichever producer the block came
\* from, and the block's own hash becomes the finalizer's committed hash.
C15_ParentFollowsCallOrder ==
  /\ [](\A i \in 1..Len(canonOut) :
          (canonOut[i].fin # "none" /\ canonOut[i].block.parent_hash = ZeroHash) =>
             \A j \in 1..(i - 1) : canonOut[j].fin # canonOut[i].fin)
  /\ [][ /\ ChainedOn(canonOut, canonOut', "main", finalizer, finalizer')
         /\ ChainedOn(forkOut, forkOut', "main", finalizer, finalizer')
         /\ fork_finalizer # None =>
              /\ ChainedOn(canonOut, canonOut', "copy", fork_finalizer[1], fork_finalizer'[1])
              /\ ChainedOn(forkOut, forkOut', "copy", fork_finalizer[1], fork_finalizer'[1])
       ]_vars

\* a canon block, then a fork block, then a canon block were completed with the
\* same finalizer and are chained in that order
C15_Witness ==
  /\ Len(canonOut) >= 2
  /\ Len(forkOut) >= 1
  /\ \E i \in 1..(Len(canonOut) - 1), j \in 1..Len(forkOut) :
       /\ canonOut[i].fin = "main"
       /\ forkOut[j].fin = "main"
       /\ canonOut[i + 1].fin = "main"
       /\ forkOut[j].block.parent_hash = canonOut[i].hash
       /\ canonOut[i + 1].block.parent_hash = forkOut[j].hash
       /\ finalizer.parent_hash = canonOut[i + 1].hash

\* the entries of both logs completed with finalizer f
CompletedWith(f) ==
  {<<"canon", i>> : i \in {k \in 1..Len(canonOut) : canonOut[k].fin = f}}
    \cup {<<"fork", i>> : i \in {k \in 1..Len(forkOut) : forkOut[k].fin = f}}

\* this step appended to a log an entry completed with finalizer f
CompletedNow(f) ==
  \/ canonOut' # canonOut /\ LastOf(canonOut').fin = f
  \/ forkOut' # forkOut /\ LastOf(forkOut').fin = f

\* C16 (Duplicated finalizers are independent): after finalizer.fork(), a
\* completion with the copy leaves the original finalizer unchanged and a
\* completion with the original leaves the copy unchanged; each holds exactly
\* the commits made through it, so the original's next parent hash is never a
\* hash committed to the copy.
C16_FinalizersIndependent ==
  /\ [](Commits(finalizer.parent_hash) = Cardinality(CompletedWith("main")))
  /\ [](fork_finalizer # None =>
          /\ Commits(fork_finalizer[1].parent_hash) =
               Commits(forkPoint.finalizer[1]) + Cardinality(CompletedWith("copy"))
          /\ \A i \in 1..Len(canonOut) :
               canonOut[i].fin = "copy" => finalizer.parent_hash # canonOut[i].hash
          /\ \A i \in 1..Len(forkOut) :
               forkOut[i].fin = "copy" => finalizer.parent_hash # forkOut[i].hash)
  /\ [][ /\ CompletedNow("copy") => finalizer' = finalizer
         /\ CompletedNow("main") => fork_finalizer' = fork_finalizer ]_vars

\* two blocks were completed with the copy, and then a block completed with the
\* original got the hash the original held at the duplication as its parent
C16_Witness ==
  /\ fork_finalizer # None
  /\ Cardinality(CompletedWith("copy")) >= 2
  /\ last.fin = "main"
  /\ last.item # None
  /\ last.item[1].parent_hash = forkPoint.finalizer[1]
  /\ Commits(fork_finalizer[1].parent_hash) = Commits(finalizer.parent_hash) + 1

\* C17 (Only the completion stage writes the finalizer): a finalizer changes
\* only in a step that completes a block with it; advancing the base generator,
\* creating a fork, wrapping a producer, and advancing a Fork, Bloom or
\* Transaction stage without Complete leave every finalizer unchanged.
C17_OnlyCompleteWrites ==
  [][ /\ finalizer' # finalizer => CompletedNow("main")
      /\ (fork_finalizer # None /\ fork_finalizer' # fork_finalizer) => CompletedNow("copy")
      /\ (CompletedNow("none") \/ fork_chain' # fork_chain \/ canon_chain' # canon_chain
            \/ pipe'.iter # pipe.iter) =>
           /\ CompletedNow("main") \/ finalizer' = finalizer
           /\ CompletedNow("copy") \/ fork_finalizer = None
                \/ fork_finalizer' = fork_finalizer
    ]_vars

\* after a commit to the finalizer, a Bloom or Transaction stage over the Fork
\* stage was advanced without Complete
C17_Witness ==
  /\ finalizer.parent_hash # ZeroHash
  /\ fork_finalizer # None
  /\ pipe.target = "fork"
  /\ pipe.iter.kind \in {"Bloom", "Transaction"}
  /\ pipe.iter.iter.kind = "Fork"
  /\ pipe.fin = "none"
  /\ pipe.pulled
  /\ last.src = "fork"
  /\ last.fin = "none"
  /\ last.item # None
  /\ LastOf(forkOut).fin = "none"

\* C18 (Bloom decorator frame): a block emitted by a Bloom stage has the
\* configured bloom, whatever bloom the wrapped producer set (with stacked Bloom
\* stages the outermost wins), and the number, difficulty and transaction list
\* of the block pulled from the wrapped producer.
C18_BloomFrame ==
  /\ \A x \in Wrappable : \A b \in StackBlooms :
       LET raw == IterNext(x)
           w == IterNext(with_bloom(x, b))
       IN /\ raw.item = None => w.item = None
          /\ raw.item # None =>
               /\ w.item = Some([raw.item[1] EXCEPT !.log_bloom = b])
               /\ \A b2 \in StackBlooms :
                    IterNext(with_bloom(with_bloom(x, b), b2)).item =
                      Some([raw.item[1] EXCEPT !.log_bloom = b2])
               /\ \A t \in StackTransactions :
                    IterNext(with_bloom(with_transaction(x, t), b)).item =
                      Some([IterNext(with_transaction(x, t)).item[1]
                              EXCEPT !.log_bloom = b])
  /\ (pipe.target = "canon" /\ pipe.iter.kind = "Bloom" /\ pipe.pulled
        /\ last.item # None) =>
       /\ last.item[1] = LastOf(canonOut).block
       /\ last.item[1].log_bloom = pipe.iter.bloom
       /\ last.item[1].number = Len(canonOut) - 1
       /\ last.item[1].difficulty = DefaultDifficulty
       /\ last.item[1].transactions = <<>>

\* a Bloom stage stacked on a Bloom stage with another bloom was pulled: the
\* block has the outer stage's bloom
C18_Witness ==
  /\ pipe.target = "canon"
  /\ pipe.iter.kind = "Bloom"
  /\ pipe.iter.iter.kind = "Bloom"
  /\ pipe.iter.bloom # pipe.iter.iter.bloom
  /\ pipe.pulled
  /\ Len(canonOut) >= 2
  /\ last.item # None
  /\ last.item[1].log_bloom = pipe.iter.bloom
  /\ last.item[1].number >= 1

RECURSIVE ConfiguredTransactions(_)
\* the transactions configured in the Transaction stages of an iterator value,
\* innermost stage first
ConfiguredTransactions(it) ==
  IF it.kind = "ChainGenerator" THEN <<>>
  ELSE IF it.kind = "Transaction"
       THEN Append(ConfiguredTransactions(it.iter), it.transaction)
       ELSE ConfiguredTransactions(it.iter)

\* C19 (Transaction decorator appends without replacing): a block emitted by a
\* Transaction stage has the wrapped block's transaction list with the
\* configured transaction appended at the end and unchanged number, difficulty
\* and bloom; k stacked stages yield exactly k transactions in application
\* order, and the same configured transaction is used for every block.
C19_TransactionAppends ==
  /\ \A x \in Wrappable : \A t \in StackTransactions :
       LET raw == IterNext(x)
           w == IterNext(with_transaction(x, t))
       IN /\ raw.item # None
          /\ w.item = Some([raw.item[1] EXCEPT !.transactions = Append(@, t)])
          /\ raw.item[1].transactions = ConfiguredTransactions(x)
          /\ Len(w.item[1].transactions) = Len(ConfiguredTransactions(x)) + 1
          /\ w.item[1].log_bloom = raw.item[1].log_bloom
          /\ NthItem(with_transaction(x, t), 2).transactions =
               Append(NthItem(x, 2).transactions, t)
          /\ NthItem(with_transaction(x, t), 2).number = NthItem(x, 2).number
          /\ \A t2 \in StackTransactions :
               IterNext(with_transaction(with_transaction(x, t), t2)).item[1].transactions
                 = raw.item[1].transactions \o <<t, t2>>
          /\ \A b \in StackBlooms :
               IterNext(with_transaction(with_bloom(x, b), t)).item =
                 Some([IterNext(with_bloom(x, b)).item[1]
                         EXCEPT !.transactions = Append(@, t)])
  /\ (pipe.target = "canon" /\ pipe.pulled) =>
       /\ LastOf(canonOut).block.transactions = ConfiguredTransactions(pipe.iter)
       /\ LastOf(canonOut).block.number = Len(canonOut) - 1
       /\ LastOf(canonOut).block.difficulty = DefaultDifficulty
       /\ LastOf(canonOut).block.log_bloom = IterNext(pipe.iter).item[1].log_bloom
       /\ Stages(pipe.iter) = Len(ConfiguredTransactions(pipe.iter)) =>
            LastOf(canonOut).block.log_bloom = NoBloom

\* two Transaction stages with different transactions were stacked and pulled
\* twice: both blocks have the inner, then the outer transaction
C19_Witness ==
  /\ pipe.target = "canon"
  /\ pipe.iter.kind = "Transaction"
  /\ pipe.iter.iter.kind = "Transaction"
  /\ pipe.iter.transaction # pipe.iter.iter.transaction
  /\ pipe.pulled
  /\ pipe.since = 0
  /\ Len(canonOut) = 2
  /\ \A i \in 1..2 :
       canonOut[i].block.transactions =
         <<pipe.iter.iter.transaction, pipe.iter.transaction>>

====
